---- MODULE Spec2Model ----
(***************************************************************************)
(* A model of the sepal_ui widget layer: the visibility mechanism, the     *)
(* v_model and the children of SepalWidget, the method selector of the     *)
(* AOI view, the AOI view itself and the AOI model it drives, the          *)
(* fullscreen and menu controls of a map, the planet credentials view,     *)
(* the download button, the binding of an input to an alert, and the       *)
(* colours of the theme.                                                   *)
(***************************************************************************)
EXTENDS Integers, Sequences, FiniteSets, TLC

(***************************************************************************)
(* Bounds of the model.                                                    *)
(***************************************************************************)
\* longest html class string given to a widget at construction
MaxLen == 3
\* longest list of method names given to a method selector
MaxList == 2
\* most attributes of an AoiModel overwritten by hand between two clears
MaxWrites == 2
\* most AOI selections counted by a view
MaxUpdates == 2

(***************************************************************************)
(* Strings.  A python string is a sequence of characters; the text         *)
(* "d-none" is carried as one indivisible character block, every other     *)
(* class name is made of the letters "a" and "b".  A trait that allows     *)
(* None is a record telling whether it is None.                            *)
(***************************************************************************)
SP == " "
DN == "d-none"
Letters == {"a", "b"}

PyNone == [none |-> TRUE, chars |-> <<>>]
PyStr(s) == [none |-> FALSE, chars |-> s]

\* all the sequences over S of length at most n
SeqUpTo(S, n) == UNION {[1..k -> S] : k \in 0..n}

\* the class strings a caller gives to a widget: any text without "d-none",
\* the class name the visibility mechanism reserves for itself
UserClasses == {PyNone} \cup {PyStr(s) : s \in SeqUpTo(Letters \cup {SP}, MaxLen)}

\* str.split(): the maximal runs of non blank characters
RECURSIVE SplitFrom(_, _, _)
SplitFrom(s, i, cur) ==
    IF i > Len(s)
    THEN IF cur = <<>> THEN <<>> ELSE <<cur>>
    ELSE IF s[i] = SP
         THEN IF cur = <<>>
              THEN SplitFrom(s, i + 1, <<>>)
              ELSE <<cur>> \o SplitFrom(s, i + 1, <<>>)
         ELSE SplitFrom(s, i + 1, Append(cur, s[i]))

Split(s) == SplitFrom(s, 1, <<>>)

\* " ".join(words)
RECURSIVE Join(_)
Join(words) ==
    IF words = <<>> THEN <<>>
    ELSE IF Len(words) = 1 THEN words[1]
    ELSE words[1] \o <<SP>> \o Join(Tail(words))

\* the words of ws that are not w, in order
RECURSIVE Without(_, _)
Without(ws, w) ==
    IF ws = <<>> THEN <<>>
    ELSE IF ws[1] = w THEN Without(Tail(ws), w)
    ELSE <<ws[1]>> \o Without(Tail(ws), w)

\* class_list.remove(w): class_ becomes the blank-joined words of class_
\* that are not w; a None or empty class_ becomes the empty string
ClassListRemove(c, w) ==
    IF c.none \/ c.chars = <<>>
    THEN PyStr(<<>>)
    ELSE PyStr(Join(Without(Split(c.chars), w)))

\* str(class_): None prints as the text "None"
StrOf(c) == IF c.none THEN <<"N", "o", "n", "e">> ELSE c.chars

\* 'd-none' in str(class_)
HasDNone(c) == \E i \in 1..Len(StrOf(c)) : StrOf(c)[i] = DN

(***************************************************************************)
(* SepalWidget: a record of the traits viz, class_, old_class.             *)
(***************************************************************************)
\* _set_viz without the removal of "d-none" on the way back to visible
SetVizNoRemove(w) ==
    IF w.viz
    THEN [w EXCEPT !.class_ = IF w.old_class # <<>> THEN PyStr(w.old_class) ELSE w.class_]
    ELSE LET c == ClassListRemove(w.class_, <<DN>>)
         IN [w EXCEPT !.old_class = StrOf(c), !.class_ = PyStr(<<DN>>)]

\* _set_viz that forgets to save the class when hiding
SetVizNoSave(w) ==
    IF w.viz
    THEN LET c == IF w.old_class # <<>> THEN PyStr(w.old_class) ELSE w.class_
         IN [w EXCEPT !.class_ = ClassListRemove(c, <<DN>>)]
    ELSE [w EXCEPT !.class_ = PyStr(<<DN>>)]

\* the observer of viz, run after viz took its new value
_set_viz(w) ==
    IF w.viz
    THEN LET c == IF w.old_class # <<>> THEN PyStr(w.old_class) ELSE w.class_
         IN [w EXCEPT !.class_ = ClassListRemove(c, <<DN>>)]
    ELSE LET c == ClassListRemove(w.class_, <<DN>>)
         IN [w EXCEPT !.old_class = StrOf(c), !.class_ = PyStr(<<DN>>)]

\* an assignment to the trait viz: the observer runs only when the value changes
AssignViz(w, b) == IF w.viz = b THEN w ELSE _set_viz([w EXCEPT !.viz = b])

WHide(w) == AssignViz(w, FALSE)
WShow(w) == AssignViz(w, TRUE)
WToggleViz(w) == AssignViz(w, ~w.viz)

\* SepalWidget(viz=b, class_=c): the traits take their defaults, the keyword
\* traits are set, then viz is assigned
NewWidget(b, c) == AssignViz([viz |-> TRUE, class_ |-> c, old_class |-> <<>>], b)

(***************************************************************************)
(* MethodSelect.  A table of methods is the sequence of its keys (a python *)
(* dict keeps its insertion order); the type of a method is fixed.         *)
(***************************************************************************)
ADMIN == "administrative"
CUSTOM == "custom"

\* the table of the stand-alone (local) view
LocalMethods == <<"ADMIN0", "ADMIN1", "ADMIN2", "SHAPE", "DRAW", "POINTS">>

\* the table of the view bound to earth engine: AoiModel.METHODS
AllMethods == LocalMethods \o <<"ASSET">>

MethodType(k) == IF k \in {"ADMIN0", "ADMIN1", "ADMIN2"} THEN ADMIN ELSE CUSTOM

Range(f) == {f[i] : i \in DOMAIN f}

\* dict.pop(k, None) on a table
Pop(table, k) == SelectSeq(table, LAMBDA x : x # k)

\* the keys of {k: ... for k in names}: each name once, at its first place
RECURSIVE Dedup(_)
Dedup(names) ==
    IF names = <<>> THEN <<>>
    ELSE <<names[1]>> \o Dedup(SelectSeq(Tail(names), LAMBDA x : x # names[1]))

\* the names a caller writes in a list: a name of the table or a misspelt
\* one, with or without the leading '-'
ListNames == {"ADMIN0", "SHAPE", "DRAW", "ASSET", "XXX"}
ListElems == [minus : BOOLEAN, name : ListNames]

\* the methods arguments: a word, a list of names, or anything else (None)
MethodArgs ==
    {[kind |-> "str", word |-> w, list |-> <<>>] : w \in {"ALL", "ADMIN", "CUSTOM", "all"}}
    \cup {[kind |-> "list", word |-> "", list |-> l] : l \in SeqUpTo(ListElems, MaxList)}
    \cup {[kind |-> "other", word |-> "", list |-> <<>>]}

AnyMinus(l) == \E i \in DOMAIN l : l[i].minus
AllMinus(l) == \A i \in DOMAIN l : l[i].minus

\* a mixing test written with the wrong connective
MixedBothHold(l) == AnyMinus(l) /\ AllMinus(l)

\* any(m[0] == "-" for m in methods) != all(m[0] == "-" for m in methods)
Mixed(l) == AnyMinus(l) # AllMinus(l)

Names(l) == [i \in DOMAIN l |-> l[i].name]

\* self.methods as the first part of __init__ leaves it: raised tells that an
\* exception ended the construction, alias that self.methods is the table
\* itself and not a new dict
BuildMethods(arg, table) ==
    LET ok(ms, al) == [raised |-> FALSE, methods |-> ms, alias |-> al]
        fail == [raised |-> TRUE, methods |-> <<>>, alias |-> FALSE]
    IN  IF arg.kind = "str" /\ arg.word = "ALL" THEN ok(table, TRUE)
        ELSE IF arg.kind = "str" /\ arg.word = "ADMIN"
        THEN ok(SelectSeq(table, LAMBDA k : MethodType(k) = ADMIN), FALSE)
        ELSE IF arg.kind = "str" /\ arg.word = "CUSTOM"
        THEN ok(SelectSeq(table, LAMBDA k : MethodType(k) = CUSTOM), FALSE)
        ELSE IF arg.kind = "list"
        THEN IF Mixed(arg.list) THEN fail
             ELSE IF arg.list = <<>> THEN fail      \* methods[0]: IndexError
             ELSE IF arg.list[1].minus
             THEN ok(SelectSeq(table, LAMBDA k : k \notin Range(Names(arg.list))), FALSE)
             ELSE IF Range(Names(arg.list)) \subseteq Range(table)
                  THEN ok(Dedup(Names(arg.list)), FALSE)
                  ELSE fail
        ELSE fail

\* [self.methods.pop(k[1:]) for k in methods] on the table itself: a name
\* that is not (or no longer) a key ends the construction with a KeyError,
\* the names before it staying popped
RECURSIVE PopAll(_, _)
PopAll(table, names) ==
    IF names = <<>> THEN [raised |-> FALSE, table |-> table]
    ELSE IF names[1] \notin Range(table) THEN [raised |-> TRUE, table |-> table]
    ELSE PopAll(Pop(table, names[1]), Tail(names))

\* self.methods as the local MethodSelect builds it, with the table it leaves
LocalBuildMethods(arg, table) ==
    LET b == BuildMethods(arg, table)
        p == PopAll(table, Names(arg.list))
    IN  IF arg.kind = "list" /\ ~Mixed(arg.list) /\ arg.list # <<>> /\ arg.list[1].minus
        THEN [raised |-> p.raised, methods |-> IF p.raised THEN <<>> ELSE p.table,
              table |-> p.table]
        ELSE [raised |-> b.raised, methods |-> b.methods, table |-> table]

\* a cleaning that pops nothing
CleanNothing(ms, gee, map_) == ms

\* gee is True or self.methods.pop("ASSET", None)
\* map_ is not None or self.methods.pop("DRAW", None)
Clean(ms, gee, map_) ==
    LET a == IF gee THEN ms ELSE Pop(ms, "ASSET")
    IN  IF map_ THEN a ELSE Pop(a, "DRAW")

\* the item list with a header before each run of methods of one type
RECURSIVE ItemsFrom(_, _)
ItemsFrom(ms, prev_type) ==
    IF ms = <<>> THEN <<>>
    ELSE LET current_type == MethodType(ms[1])
             item == [header |-> FALSE, value |-> ms[1]]
         IN  (IF prev_type # current_type
              THEN <<[header |-> TRUE, value |-> current_type], item>>
              ELSE <<item>>)
             \o ItemsFrom(Tail(ms), current_type)

Items(ms) == ItemsFrom(ms, "None")

\* no selector
NoSelect ==
    [version |-> "none", arg |-> [kind |-> "other", word |-> "", list |-> <<>>],
     gee |-> TRUE, map_ |-> TRUE, raised |-> FALSE, built |-> FALSE,
     pre |-> <<>>, methods |-> <<>>, items |-> <<>>]

(***************************************************************************)
(* AoiModel.  Its attributes are the input traits and the outputs; a value *)
(* is the text "None", the dummy "dum" a caller wrote, or what a           *)
(* resolution produced.                                                    *)
(***************************************************************************)
None == "None"

aoi_model_traits ==
    {"method", "point_json", "vector_json", "geo_json", "admin", "asset_name", "name"}
aoi_model_outputs ==
    {"gdf", "feature_collection", "ipygeojson", "selected_feature", "dst_asset_id"}
ModelAttrs == aoi_model_traits \cup aoi_model_outputs

\* the defaults a model can be built with
Defaults == {"none", "admin", "vector", "asset"}

\* a model with every attribute at None
EmptyModel(default, gee) ==
    [default |-> default, ee |-> gee, attrs |-> [a \in ModelAttrs |-> None]]

\* clear_output() that leaves the geodataframe in place
ClearOutputKeepsGdf(m) ==
    [m EXCEPT !.attrs = [a \in ModelAttrs |->
        IF a \in aoi_model_outputs \ {"gdf"} THEN None ELSE m.attrs[a]]]

\* clear_output(): every output is None again
ClearOutput(m) ==
    [m EXCEPT !.attrs = [a \in ModelAttrs |->
        IF a \in aoi_model_outputs THEN None ELSE m.attrs[a]]]

\* the input a method is resolved from
InputOf(method) ==
    CASE method \in {"ADMIN0", "ADMIN1", "ADMIN2"} -> "admin"
      [] method = "POINTS" -> "point_json"
      [] method = "SHAPE" -> "vector_json"
      [] method = "DRAW" -> "geo_json"
      [] method = "ASSET" -> "asset_name"
      [] OTHER -> "method"

\* whether set_object() can resolve an AOI: a method is chosen and its
\* input is filled
CanResolve(m) ==
    /\ m.attrs["method"] \in Range(AllMethods)
    /\ m.attrs[InputOf(m.attrs["method"])] \notin {None, "empty"}

\* the name of the AOI an input resolves to
AoiName(input) == IF input = "85" THEN "FRA" ELSE input

\* set_object(): the outputs are cleared, then the AOI of the chosen method
\* is resolved (a geodataframe, and a feature collection with earth engine)
SetObject(m) ==
    LET c == ClearOutput(m)
    IN  [c EXCEPT !.attrs["gdf"] = "gdf",
                  !.attrs["feature_collection"] = IF m.ee THEN "fc" ELSE None,
                  !.attrs["name"] = IF m.attrs["method"] = "DRAW" THEN @
                                    ELSE AoiName(m.attrs[InputOf(m.attrs["method"])])]

\* set_default(): the inputs of the default the model was built with are
\* set and its AOI is resolved; nothing to do without a default
SetDefault(m) ==
    CASE m.default = "admin" ->
            SetObject([m EXCEPT !.attrs["admin"] = "85", !.attrs["method"] = "ADMIN0"])
      [] m.default = "vector" ->
            SetObject([m EXCEPT !.attrs["vector_json"] = "gadm36_VAT_0",
                                !.attrs["method"] = "SHAPE"])
      [] m.default = "asset" ->
            SetObject([m EXCEPT !.attrs["asset_name"] = "italy", !.attrs["method"] = "ASSET"])
      [] OTHER -> m

\* clear_attributes() that forgets the default
ClearAttributesOnly(m) == EmptyModel(m.default, m.ee)

\* clear_attributes(): every attribute is None again, then the default is
\* restored
ClearAttributes(m) == SetDefault(EmptyModel(m.default, m.ee))

\* AoiModel(alert, gee=gee, admin|vector|asset=default)
NewModel(default, gee) == SetDefault(EmptyModel(default, gee))

\* a model nobody touches
IdleModel == NewModel("none", TRUE)

(***************************************************************************)
(* AoiView: the method selector, the input components, the alert, the map  *)
(* and the model, as one record.                                           *)
(***************************************************************************)
\* the keys of self.components, in insertion order
CompOrder(gee) ==
    <<"ADMIN0", "ADMIN1", "ADMIN2", "SHAPE", "POINTS", "DRAW">>
    \o (IF gee THEN <<"ASSET">> ELSE <<>>)

\* the model trait a component is bound to
TraitOf(key) ==
    CASE key \in {"ADMIN0", "ADMIN1", "ADMIN2"} -> "admin"
      [] key = "SHAPE" -> "vector_json"
      [] key = "POINTS" -> "point_json"
      [] key = "DRAW" -> "name"
      [] key = "ASSET" -> "asset_name"

\* the admin field whose parent is the component key, if any
ChildOf(key) ==
    CASE key = "ADMIN0" -> "ADMIN1"
      [] key = "ADMIN1" -> "ADMIN2"
      [] OTHER -> None

\* the parent of an admin field, if any
ParentOf(key) ==
    CASE key = "ADMIN1" -> "ADMIN0"
      [] key = "ADMIN2" -> "ADMIN1"
      [] OTHER -> None

\* an input component: a SepalWidget with a v_model
NewComp == [viz |-> TRUE, class_ |-> PyNone, old_class |-> <<>>, v_model |-> None]

\* sw.Alert(): the class "mt-5", no message, hidden
NewAlert ==
    WHide([viz |-> TRUE, class_ |-> PyStr(<<"m", "t", "-", "5">>), old_class |-> <<>>,
           msg |-> ""])

\* Alert.reset(): the message is emptied and the alert hidden
AlertReset(a) == WHide([a EXCEPT !.msg = ""])

\* Alert.add_msg(msg): the alert is shown with the message
AlertAddMsg(a, msg) == [WShow(a) EXCEPT !.msg = msg]

\* _update of the admin fields below key: the parent changed, so the child
\* loses its v_model, and so on down
RECURSIVE UpdateChildren(_, _)
UpdateChildren(comps, key) ==
    LET child == ChildOf(key)
    IN  IF child = None \/ comps[child].v_model = None THEN comps
        ELSE UpdateChildren([comps EXCEPT ![child].v_model = None], child)

\* an assignment to the v_model of a component: when the value changes the
\* admin fields below are updated and the bound model trait follows
AssignVModel(view, key, val) ==
    IF view.comps[key].v_model = val THEN view
    ELSE [view EXCEPT
            !.comps = UpdateChildren([view.comps EXCEPT ![key].v_model = val], key),
            !.model.attrs[TraitOf(key)] = val]

\* [w.reset() for w in self.components.values()]
RECURSIVE ResetComps(_, _)
ResetComps(view, keys) ==
    IF keys = <<>> THEN view
    ELSE ResetComps(AssignVModel(view, keys[1], None), Tail(keys))

\* AdminField.show() that leaves the parent as it is
ShowCompAlone(comps, key) == [comps EXCEPT ![key] = WShow(@)]

\* w.show(): an admin field shows its parent as well
RECURSIVE ShowComp(_, _)
ShowComp(comps, key) ==
    LET shown == [comps EXCEPT ![key] = WShow(@)]
    IN  IF ParentOf(key) = None THEN shown ELSE ShowComp(shown, ParentOf(key))

\* [w.show() if new == k else w.hide() for k, w in self.components.items()]
RECURSIVE ShowOrHide(_, _, _)
ShowOrHide(comps, keys, new) ==
    IF keys = <<>> THEN comps
    ELSE ShowOrHide(IF new = keys[1] THEN ShowComp(comps, keys[1])
                    ELSE [comps EXCEPT ![keys[1]] = WHide(@)],
                    Tail(keys), new)

\* the observer of w_method.v_model that names every drawn AOI, also when
\* no method is chosen
ActivateAlwaysNames(view, new) ==
    LET a == [view EXCEPT !.alert = AlertReset(@),
                          !.map.dc_viz = IF view.has_map THEN new = "DRAW" ELSE @]
        b == ResetComps(a, CompOrder(view.ee))
        c == [b EXCEPT !.comps = ShowOrHide(@, CompOrder(view.ee), new)]
    IN  AssignVModel(c, "DRAW", "Manual_aoi_now")

\* _activate(change), new being change["new"]
_activate(view, new) ==
    LET a == [view EXCEPT !.alert = AlertReset(@),
                          !.map.dc_viz = IF view.has_map THEN new = "DRAW" ELSE @]
        b == ResetComps(a, CompOrder(view.ee))
        c == [b EXCEPT !.comps = ShowOrHide(@, CompOrder(view.ee), new)]
    IN  AssignVModel(c, "DRAW", IF new = None THEN None ELSE "Manual_aoi_now")

\* an assignment to w_method.v_model: when the value changes the bound model
\* trait follows and _activate runs
AssignMethod(view, new) ==
    IF view.w_method = new THEN view
    ELSE _activate([view EXCEPT !.w_method = new, !.model.attrs["method"] = new], new)

\* the model once the click has read the drawn features from the map:
\* if self.map_: self.model.geo_json = self.map_.dc.to_json()
ClickModel(view) ==
    IF view.has_map
    THEN [view.model EXCEPT
             !.attrs["geo_json"] = IF view.map.drawn THEN "features" ELSE "empty"]
    ELSE view.model

\* _update_aoi that counts the click and not the selection
UpdateAoiCountsClicks(view) ==
    LET m == ClickModel(view)
    IN  IF ~CanResolve(m)
        THEN [view EXCEPT !.model = m, !.alert = AlertAddMsg(@, "error"),
                          !.updated = @ + 1]
        ELSE [view EXCEPT !.model = SetObject(m),
                          !.alert = AlertAddMsg(@, "complete"),
                          !.map.aoi = view.has_map,
                          !.map.dc_viz = FALSE,
                          !.updated = @ + 1]

\* _update_aoi(widget, event, data): the drawn features are read from the
\* map, the model resolves its AOI (or raises, and the click ends there with
\* the error in the alert), the map shows the AOI and updated is incremented
_update_aoi(view) ==
    LET m == ClickModel(view)
    IN  IF ~CanResolve(m)
        THEN [view EXCEPT !.model = m, !.alert = AlertAddMsg(@, "error")]
        ELSE [view EXCEPT !.model = SetObject(m),
                          !.alert = AlertAddMsg(@, "complete"),
                          !.map.aoi = view.has_map,
                          !.map.dc_viz = FALSE,
                          !.updated = @ + 1]

\* AoiView.reset()
ViewReset(view) ==
    LET a == [view EXCEPT !.map.aoi = FALSE]
        b == ResetComps(a, CompOrder(view.ee))
        c == [b EXCEPT !.model = ClearAttributes(@)]
        d == [c EXCEPT !.alert = AlertReset(@)]
    IN  AssignMethod(d, None)

\* AoiView(methods, map_, gee, admin|vector|asset=default)
NewView(word, has_map, gee, default) ==
    LET m == NewModel(default, gee)
    IN  [ee |-> gee,
         has_map |-> has_map,
         offered |-> Clean(BuildMethods([kind |-> "str", word |-> word, list |-> <<>>],
                                        AllMethods).methods, gee, has_map),
         w_method |-> "",
         comps |-> [k \in Range(CompOrder(gee)) |-> WHide(NewComp)],
         alert |-> IF default = "none" THEN NewAlert ELSE AlertAddMsg(NewAlert, "complete"),
         map |-> [aoi |-> FALSE, dc_viz |-> has_map, drawn |-> FALSE],
         model |-> ClearAttributes(m),
         updated |-> 0]

\* a view nobody touches
IdleView == NewView("ALL", FALSE, FALSE, "none")

\* a widget nobody touches
IdleWidget == NewWidget(TRUE, PyNone)

(***************************************************************************)
(* The map controls.  A python list indexed by a bool: False is the first  *)
(* element, True the second.                                               *)
(***************************************************************************)
\* most clicks on the fullscreen button
MaxClicks == 3

\* list[b], b being a bool
AtBool(list, b) == list[IF b THEN 2 ELSE 1]

ICONS == <<"fas fa-expand", "fas fa-compress">>
METHODS == <<"embed", "fullscreen">>

\* the text of a position, one character at a time
TOP == <<"t", "o", "p">>
BOTTOM == <<"b", "o", "t", "t", "o", "m">>
LEFT == <<"l", "e", "f", "t">>
RIGHT == <<"r", "i", "g", "h", "t">>

\* the values of the position trait of a WidgetControl
Positions == {TOP \o LEFT, TOP \o RIGHT, BOTTOM \o LEFT, BOTTOM \o RIGHT}

\* sub in s, for two python strings
IsIn(sub, s) ==
    \E i \in 0..(Len(s) - Len(sub)) : SubSeq(s, i + 1, i + Len(sub)) = sub

\* FullScreenControl(m, fullscreen, position=position): the button carries
\* the icon of the state, the javascript of the state is displayed, and
\* nothing was sent to the template yet
NewFullScreenControl(fullscreen, position) ==
    [fullscreen |-> fullscreen,
     zoomed |-> fullscreen,
     logo |-> AtBool(ICONS, fullscreen),
     position |-> position,
     displayed |-> AtBool(METHODS, fullscreen),
     sent |-> <<>>]

\* toggle_fullscreen that sends the method of the state it leaves
ToggleSendsOldMethod(c) ==
    LET z == ~c.zoomed
    IN  [c EXCEPT !.zoomed = z,
                  !.logo = AtBool(ICONS, z),
                  !.sent = Append(@, AtBool(METHODS, c.zoomed))]

\* toggle_fullscreen(widget, event, data)
toggle_fullscreen(c) ==
    LET z == ~c.zoomed
    IN  [c EXCEPT !.zoomed = z,
                  !.logo = AtBool(ICONS, z),
                  !.sent = Append(@, AtBool(METHODS, z))]

\* update_position that places the menu on the side of the control
UpdatePositionSameSide(mc) ==
    [mc EXCEPT !.menu.top = IsIn(TOP, mc.position),
               !.menu.bottom = IsIn(BOTTOM, mc.position),
               !.menu.left = IsIn(LEFT, mc.position),
               !.menu.right = IsIn(RIGHT, mc.position)]

\* update_position(change)
update_position(mc) ==
    [mc EXCEPT !.menu.top = IsIn(BOTTOM, mc.position),
               !.menu.bottom = IsIn(TOP, mc.position),
               !.menu.left = IsIn(RIGHT, mc.position),
               !.menu.right = IsIn(LEFT, mc.position)]

\* MenuControl(icon_content, card_content, **kwargs): the keyword arguments
\* are not passed on, the control is placed at the bottom right and the
\* menu, closed, is placed accordingly
NewMenuControl ==
    update_position(
        [position |-> BOTTOM \o RIGHT,
         menu |-> [v_model |-> FALSE, top |-> FALSE, bottom |-> FALSE,
                   left |-> FALSE, right |-> FALSE]])

\* an assignment to the trait position: the observer runs only when the
\* value changes
AssignPosition(mc, p) ==
    IF mc.position = p THEN mc ELSE update_position([mc EXCEPT !.position = p])

\* a fullscreen control nobody touches
IdleFullScreen == NewFullScreenControl(FALSE, TOP \o LEFT)

(***************************************************************************)
(* SepalWidget, its v_model and its children.                              *)
(***************************************************************************)
\* longest list of children a widget is left with
MaxChildren == 2

\* the children a caller gives: texts or widgets
Childs == {"x", "y"}

\* a SepalWidget with the traits v_model and children of the vuetify widget
WithTraits(w, v_model, children) ==
    [viz |-> w.viz, class_ |-> w.class_, old_class |-> w.old_class,
     v_model |-> v_model, children |-> children]

\* SepalWidget(viz=b, class_=c, v_model=v_model, children=children)
NewSepalWidget(b, c, v_model, children) ==
    AssignViz(WithTraits([viz |-> TRUE, class_ |-> c, old_class |-> <<>>],
                         v_model, children), b)

\* reset() that also empties the widget
ResetDropsChildren(w) == [w EXCEPT !.v_model = None, !.children = <<>>]

\* reset()
WReset(w) == [w EXCEPT !.v_model = None]

\* the values of the trait v_model
WidgetValues == {None, "toto"}

\* the arguments of set_children: a list or one child, and a position that
\* may be left out
ChildrenArgs ==
    [kind : {"list"}, list : SeqUpTo(Childs, 2), one : {"x"},
     position : {"default", "first", "last", "middle"}]
    \cup [kind : {"one"}, list : {<<>>}, one : Childs,
          position : {"default", "first", "last", "middle"}]

\* no call of set_children yet
NoChildrenArg == [kind |-> "list", list |-> <<>>, one |-> "x", position |-> "default"]

\* set_children that always inserts first
SetChildrenAlwaysFirst(w, arg) ==
    LET children == IF arg.kind = "list" THEN arg.list ELSE <<arg.one>>
    IN  [raised |-> FALSE, widget |-> [w EXCEPT !.children = children \o w.children]]

\* set_children(children, position): raised tells that ValueError ended the
\* call
set_children(w, arg) ==
    LET children == IF arg.kind = "list" THEN arg.list ELSE <<arg.one>>
        position == IF arg.position = "default" THEN "first" ELSE arg.position
        new_childrens == w.children
    IN  IF position = "first"
        THEN [raised |-> FALSE, widget |-> [w EXCEPT !.children = children \o new_childrens]]
        ELSE IF position = "last"
        THEN [raised |-> FALSE, widget |-> [w EXCEPT !.children = new_childrens \o children]]
        ELSE [raised |-> TRUE, widget |-> w]

(***************************************************************************)
(* PlanetView: the login method selector, the three credential fields,     *)
(* the alert and the planet model.                                         *)
(***************************************************************************)
\* the values of the login method selector
LoginMethods == {"api_key", "credentials", None}

\* what a user types in a credential field
Typed == {"", "secret"}

\* the credentials a client is initialised with
NoCredentials == [kind |-> "none", first |-> None, second |-> None]
Pair(username, password) == [kind |-> "pair", first |-> username, second |-> password]
Key(key) == [kind |-> "key", first |-> key, second |-> None]

\* a credential field: a SepalWidget with a class and a v_model
NewField(class_, v_model) ==
    [viz |-> TRUE, class_ |-> class_, old_class |-> <<>>, v_model |-> v_model]

\* PlanetView(alert=alert): has_reset tells whether the alert is the view's
\* own sw.Alert (or a sw.Alert that was given) and not a plain v.Alert
NewPlanetView(has_reset) ==
    [w_method |-> "credentials",
     w_username |-> NewField(PyStr(<<"m", "r", "-", "2">>), ""),
     w_password |-> NewField(PyNone, ""),
     w_key |-> WHide(NewField(PyNone, "")),
     has_reset |-> has_reset,
     alert |-> NewAlert,
     planet_model |-> [credentials |-> NoCredentials],
     raised |-> FALSE]

\* PlanetView.reset()
PlanetReset(pv) ==
    [pv EXCEPT !.w_username.v_model = None,
               !.w_password.v_model = None,
               !.w_key.v_model = None]

\* _swap_inputs(change), new being change["new"]: the client is
\* re-initialised; an alert without a reset method ends the observer there
\* with an AttributeError
_swap_inputs(pv, new) ==
    LET a == [pv EXCEPT !.planet_model.credentials = NoCredentials]
    IN  IF ~pv.has_reset
        THEN [a EXCEPT !.raised = TRUE]
        ELSE LET b == [a EXCEPT !.alert = AlertReset(@)]
                 c == PlanetReset(b)
             IN  IF new = "api_key"
                 THEN [c EXCEPT !.w_username = WHide(@), !.w_password = WHide(@),
                                !.w_key = WShow(@), !.raised = FALSE]
                 ELSE [c EXCEPT !.w_username = WShow(@), !.w_password = WShow(@),
                                !.w_key = WHide(@), !.raised = FALSE]

\* an assignment to w_method.v_model: the observer runs only when the value
\* changes
AssignLoginMethod(pv, new) ==
    IF pv.w_method = new THEN [pv EXCEPT !.raised = FALSE]
    ELSE _swap_inputs([pv EXCEPT !.w_method = new], new)

\* validate(): the client is initialised with the credentials of the chosen
\* method; accepted tells whether planet accepts them, the refusal being
\* written in the alert
PlanetValidate(pv, accepted) ==
    LET credentials == IF pv.w_method = "credentials"
                       THEN Pair(pv.w_username.v_model, pv.w_password.v_model)
                       ELSE Key(pv.w_key.v_model)
        a == [pv EXCEPT !.planet_model.credentials = credentials, !.raised = FALSE]
    IN  IF accepted \/ ~pv.has_reset THEN a
        ELSE [a EXCEPT !.alert = AlertAddMsg(@, "error")]

\* a view nobody touches
IdlePlanetView == NewPlanetView(TRUE)

(***************************************************************************)
(* DownloadBtn and the link it is given.  A path is a sequence of          *)
(* characters; the fixed text "/api/files/download?path=" is carried as    *)
(* one indivisible block.                                                  *)
(***************************************************************************)
\* longest path given to a download button
MaxPath == 4

SLASH == "/"
API == "/api/files/download?path="

\* the characters of a path: a letter, the separator, the dot, and the
\* characters that matter to urlparse and expanduser
PathChars == {"h", SLASH, ".", ":", "#", "~"}
Paths == SeqUpTo(PathChars, MaxPath)

\* the home directory of the user and the directories a program runs in
Home == <<SLASH, "h">>
WorkDirs == {Home, Home \o <<SLASH, "h">>, <<SLASH>>, <<SLASH, "t">>}

\* s.startswith(t)
StartsWith(s, t) == Len(s) >= Len(t) /\ SubSeq(s, 1, Len(t)) = t

\* s.find(c, start): the first place of c at or after start (counted from
\* 1), 0 when there is none
Find(s, c, start) ==
    LET places == {i \in start..Len(s) : s[i] = c}
    IN  IF places = {} THEN 0 ELSE CHOOSE i \in places : \A j \in places : i <= j

\* urlparse(url).netloc: an optional scheme (a letter, then letters, dots,
\* up to a colon) is taken off, then what follows a leading '//' up to the
\* next '/', '?' or '#'
Netloc(url) ==
    LET colon == Find(url, ":", 1)
        scheme == /\ colon > 1
                  /\ url[1] = "h"
                  /\ \A i \in 1..(colon - 1) : url[i] \in {"h", "."}
        rest == IF scheme THEN SubSeq(url, colon + 1, Len(url)) ELSE url
        delims == {i \in 3..Len(rest) : rest[i] \in {SLASH, "?", "#"}}
        delim == IF delims = {} THEN Len(rest) + 1
                 ELSE CHOOSE i \in delims : \A j \in delims : i <= j
    IN  IF StartsWith(rest, <<SLASH, SLASH>>) THEN SubSeq(rest, 3, delim - 1) ELSE <<>>

\* is_absolute(url)
is_absolute(url) == Netloc(url) # <<>>

\* os.path.expanduser(path): a leading '~' alone is the home directory of
\* the user; '~name' is left as it is, no other user being known
expanduser(path) ==
    IF ~StartsWith(path, <<"~">>) THEN path
    ELSE LET i == IF Find(path, SLASH, 2) = 0 THEN Len(path) + 1 ELSE Find(path, SLASH, 2)
         IN  IF i # 2 THEN path
             ELSE Home \o SubSeq(path, i, Len(path))

\* the non empty components of path.split('/')
RECURSIVE CompsFrom(_, _, _)
CompsFrom(s, i, cur) ==
    IF i > Len(s)
    THEN IF cur = <<>> THEN <<>> ELSE <<cur>>
    ELSE IF s[i] = SLASH
         THEN IF cur = <<>>
              THEN CompsFrom(s, i + 1, <<>>)
              ELSE <<cur>> \o CompsFrom(s, i + 1, <<>>)
         ELSE CompsFrom(s, i + 1, Append(cur, s[i]))

Comps(s) == CompsFrom(s, 1, <<>>)

\* '/'.join(comps)
RECURSIVE JoinPath(_)
JoinPath(comps) ==
    IF comps = <<>> THEN <<>>
    ELSE IF Len(comps) = 1 THEN comps[1]
    ELSE comps[1] \o <<SLASH>> \o JoinPath(Tail(comps))

DOT == <<".">>
DOTDOT == <<".", ".">>

\* the loop of os.path.normpath over the components
RECURSIVE NormComps(_, _, _)
NormComps(comps, rooted, new_comps) ==
    IF comps = <<>> THEN new_comps
    ELSE LET comp == comps[1]
             rest == Tail(comps)
         IN  IF comp = DOT THEN NormComps(rest, rooted, new_comps)
             ELSE IF \/ comp # DOTDOT
                     \/ (~rooted /\ new_comps = <<>>)
                     \/ (new_comps # <<>> /\ new_comps[Len(new_comps)] = DOTDOT)
             THEN NormComps(rest, rooted, Append(new_comps, comp))
             ELSE IF new_comps # <<>>
             THEN NormComps(rest, rooted, SubSeq(new_comps, 1, Len(new_comps) - 1))
             ELSE NormComps(rest, rooted, new_comps)

\* os.path.normpath(path)
normpath(path) ==
    LET initial_slashes ==
            IF ~StartsWith(path, <<SLASH>>) THEN 0
            ELSE IF StartsWith(path, <<SLASH, SLASH>>)
                    /\ ~StartsWith(path, <<SLASH, SLASH, SLASH>>) THEN 2
            ELSE 1
        joined == JoinPath(NormComps(Comps(path), initial_slashes > 0, <<>>))
        slashes == [i \in 1..initial_slashes |-> SLASH]
    IN  IF slashes \o joined = <<>> THEN DOT ELSE slashes \o joined

\* os.path.abspath(path) of a program that runs in cwd
abspath(path, cwd) ==
    IF StartsWith(path, <<SLASH>>) THEN normpath(path)
    ELSE IF cwd[Len(cwd)] = SLASH THEN normpath(cwd \o path)
    ELSE normpath(cwd \o <<SLASH>> \o path)

\* the length of the common prefix of two lists
RECURSIVE CommonLen(_, _)
CommonLen(a, b) ==
    IF a = <<>> \/ b = <<>> THEN 0
    ELSE IF a[1] # b[1] THEN 0
    ELSE 1 + CommonLen(Tail(a), Tail(b))

\* os.path.relpath(path, start) for a non empty path
relpath(path, start, cwd) ==
    LET start_list == Comps(abspath(start, cwd))
        path_list == Comps(abspath(path, cwd))
        i == CommonLen(start_list, path_list)
        rel_list == [k \in 1..(Len(start_list) - i) |-> DOTDOT]
                    \o SubSeq(path_list, i + 1, Len(path_list))
    IN  IF rel_list = <<>> THEN DOT ELSE JoinPath(rel_list)

\* create_download_link that takes the path as it is given
LinkOfGivenPath(pathname, cwd) ==
    [raised |-> FALSE, link |-> <<API, SLASH>> \o pathname]

\* create_download_link(pathname) of a program that runs in cwd: raised
\* tells that relpath refused an empty path with a ValueError
create_download_link(pathname, cwd) ==
    LET result_path == expanduser(pathname)
        home_path == expanduser(<<"~">>)
    IN  IF result_path = <<>>
        THEN [raised |-> TRUE, link |-> <<>>]
        ELSE [raised |-> FALSE,
              link |-> <<API>> \o <<SLASH>> \o relpath(result_path, home_path, cwd)]

\* the path of a button built without one
DefaultPath == <<"#">>

\* the arguments of DownloadBtn: a path, or none
PathArgs == [given : {TRUE}, path : Paths] \cup {[given |-> FALSE, path |-> <<>>]}

\* DownloadBtn(text, path) and DownloadBtn(text)
NewDownloadBtn(arg, cwd) ==
    LET path == IF arg.given THEN arg.path ELSE DefaultPath
        l == create_download_link(path, cwd)
    IN  IF is_absolute(path)
        THEN [arg |-> arg, built |-> TRUE, raised |-> FALSE, path |-> path, href |-> path]
        ELSE [arg |-> arg, built |-> ~l.raised, raised |-> l.raised, path |-> path,
              href |-> l.link]

\* no button
NoBtn ==
    [arg |-> [given |-> FALSE, path |-> <<>>], built |-> FALSE, raised |-> FALSE,
     path |-> <<>>, href |-> <<>>]

(***************************************************************************)
(* Alert of sepalwidgets.py and its bind.  A python value is a record of   *)
(* its type and of the text str() prints for it.                           *)
(***************************************************************************)
NONE_TEXT == <<"N", "o", "n", "e">>

VNone == [type |-> "NoneType", text |-> NONE_TEXT]
VStr(s) == [type |-> "str", text |-> s]
VInt(digits) == [type |-> "int", text |-> digits]
\* an attribute that was never set
Unset == [type |-> "unset", text |-> <<>>]

\* the values an input widget takes
InputValues == {VNone, VStr(<<"a">>), VStr(NONE_TEXT), VInt(<<"7">>), VStr(<<"7">>)}

\* str(value)
Str(value) == value.text

\* the message given to bind: the default one, a custom one, an empty one
DEFAULT_MSG == <<"The selected variable is: ">>
BindMsgs == {DEFAULT_MSG, <<"v", "=">>, <<>>}

\* s.strip()
RECURSIVE Strip(_)
Strip(s) ==
    IF s = <<>> THEN s
    ELSE IF s[1] = SP THEN Strip(Tail(s))
    ELSE IF s[Len(s)] = SP THEN Strip(SubSeq(s, 1, Len(s) - 1))
    ELSE s

\* hide() of the SepalWidget of sepalwidgets.py
LegacyHide(w) ==
    [w EXCEPT !.class_ = IF ~IsIn(<<DN>>, w.class_) THEN Strip(w.class_) \o <<SP, DN>> ELSE @,
              !.viz = FALSE]

\* show() of the SepalWidget of sepalwidgets.py
LegacyShow(w) ==
    [w EXCEPT !.class_ = SelectSeq(w.class_, LAMBDA c : c # DN),
              !.viz = TRUE]

\* Alert(): an empty message, the class "mt-5", hidden
NewLegacyAlert ==
    LegacyHide([viz |-> TRUE, class_ |-> <<"mt-5">>, type |-> "info", children |-> <<<<>>>>])

\* Alert.add_msg(msg)
LegacyAddMsg(a, msg) == [LegacyShow(a) EXCEPT !.type = "info", !.children = <<msg>>]

\* Alert.reset()
LegacyReset(a) == LegacyHide([a EXCEPT !.children = <<<<>>>>])

\* alert.bind(widget, obj, variable, msg): the handler is registered with
\* its arguments; the widget has the value v_model and obj.variable has the
\* value attr
NewBinding(msg, v_model, attr) ==
    [msg |-> msg, v_model |-> v_model, attr |-> attr, alert |-> NewLegacyAlert]

\* on_change that keeps the message it built for the next event
OnChangeAccumulates(b) ==
    LET msg == b.msg \o Str(b.v_model)
    IN  [b EXCEPT !.attr = b.v_model, !.msg = msg, !.alert = LegacyAddMsg(@, msg)]

\* on_change(widget, event, data, obj, variable, output, msg)
on_change(b) ==
    LET msg == b.msg \o Str(b.v_model)
    IN  [b EXCEPT !.attr = b.v_model, !.alert = LegacyAddMsg(@, msg)]

\* a binding nobody touches
IdleBinding == NewBinding(DEFAULT_MSG, VNone, Unset)

(***************************************************************************)
(* SepalColor, the vuetify theme and the configuration file.               *)
(***************************************************************************)
TYPES ==
    {"info", "primary", "secondary", "accent", "error", "success", "warning",
     "anchor", "main", "darker", "bg", "menu"}

\* a colour name a caller adds
EXTRA == "extra"
ColorNames == TYPES \cup {EXTRA}

\* a name without a value
NoColor == "unset"

DARK_THEME ==
    [k \in TYPES |->
        CASE k = "primary" -> "#76591e"
          [] k = "secondary" -> "#363e4f"
          [] k = "error" -> "#a63228"
          [] k = "info" -> "#c5c6c9"
          [] k = "success" -> "#3f802a"
          [] k = "warning" -> "#b8721d"
          [] k = "accent" -> "1a1a1a"
          [] k = "anchor" -> "#24221f"
          [] k = "main" -> "#24221f"
          [] k = "darker" -> "#1a1a1a"
          [] k = "bg" -> "#121212"
          [] k = "menu" -> "#424242"]

LIGHT_THEME ==
    [k \in TYPES |->
        CASE k = "primary" -> "#b9b9b9"
          [] k = "accent" -> "v.theme.themes.light.accent"
          [] k = "secondary" -> "v.theme.themes.light.secondary"
          [] k = "success" -> "v.theme.themes.light.success"
          [] k = "info" -> "v.theme.themes.light.info"
          [] k = "warning" -> "v.theme.themes.light.warning"
          [] k = "error" -> "v.theme.themes.light.error"
          [] k = "anchor" -> None
          [] k = "main" -> "#2196f3"
          [] k = "darker" -> "#ffffff"
          [] k = "bg" -> "#FFFFFF"
          [] k = "menu" -> "#FFFFFF"]

\* a dict of colours as a function over the colour names
AsDict(table) == [k \in ColorNames |-> IF k \in DOMAIN table THEN table[k] ELSE NoColor]

\* the custom colours a caller gives: none, one of the theme, one of its own
NoColors == AsDict(<<>>)
NewColors ==
    {NoColors,
     [NoColors EXCEPT !["main"] = "#custom"],
     [NoColors EXCEPT ![EXTRA] = "#custom"]}

\* dict.update(d) and the setattr of every item of d
Update(old, d) == [k \in ColorNames |-> IF d[k] # NoColor THEN d[k] ELSE old[k]]

\* the themes of sepal-ui the configuration file can name
ConfThemes == {"dark", "light", "other"}

\* __init__ that does not write the configuration file
InitColorNoSave(st, new_colors) ==
    LET theme_name == IF st._dark_theme THEN "dark" ELSE "light"
        table == AsDict(IF st._dark_theme THEN DARK_THEME ELSE LIGHT_THEME)
        kwargs == IF new_colors # NoColors THEN new_colors ELSE table
    IN  [st EXCEPT !.v_theme_dark = st._dark_theme,
                   !.theme_name = theme_name,
                   !.kwargs = kwargs,
                   !.themes[theme_name] = Update(@, kwargs),
                   !.namespace = Update(@, kwargs)]

\* SepalColor.__init__(self, *_, **new_colors), which is also the observer
\* of _dark_theme
InitColor(st, new_colors) ==
    LET theme_name == IF st._dark_theme THEN "dark" ELSE "light"
        table == AsDict(IF st._dark_theme THEN DARK_THEME ELSE LIGHT_THEME)
        kwargs == IF new_colors # NoColors THEN new_colors ELSE table
    IN  [st EXCEPT !.v_theme_dark = st._dark_theme,
                   !.theme_name = theme_name,
                   !.config_theme = theme_name,
                   !.kwargs = kwargs,
                   !.themes[theme_name] = Update(@, kwargs),
                   !.namespace = Update(@, kwargs)]

\* SepalColor(**new_colors) in a program that found the theme conf in the
\* configuration file when it imported the module; the record holds the
\* SepalColor itself, the dark flag and the two themes of vuetify, and the
\* theme of the configuration file
NewSepalColor(conf, new_colors) ==
    InitColor(
        [_dark_theme |-> (conf = "dark"),
         given |-> new_colors,
         theme_name |-> NoColor,
         kwargs |-> NoColors,
         namespace |-> NoColors,
         v_theme_dark |-> (conf = "dark"),
         themes |-> [dark |-> AsDict(DARK_THEME), light |-> AsDict(LIGHT_THEME)],
         config_theme |-> conf],
        new_colors)

\* an assignment to the trait _dark_theme: the observer runs only when the
\* value changes, and it is given the change and no colours
AssignDarkTheme(st, b) ==
    IF st._dark_theme = b THEN st ELSE InitColor([st EXCEPT !._dark_theme = b], NoColors)

\* colours nobody touches
IdleColor == NewSepalColor("dark", NoColors)

VARIABLES
    widget,     \* a SepalWidget
    wlast,      \* the last operation called on it
    wbefore,    \* the widget as it was before the last operation
    whidden,    \* the widget as it was before the last hide()
    wpair,      \* the last two operations were hide() then show()
    warg,       \* the arguments of set_children, when it was the last operation
    wraised,    \* the last operation raised
    select_methods,         \* the method table shared by every MethodSelect
    local_select_methods,   \* the method table of the local view's module
    msel,       \* the outcome of the last MethodSelect construction
    model,      \* an AoiModel
    mlast,      \* the last operation called on it
    mbefore,    \* the model as it was before the last operation
    mwrites,    \* the attributes written by hand since the last clear
    view,       \* an AoiView
    vlast,      \* the last operation on the view
    vupdated,   \* its updated counter before the last operation
    fsc,        \* a FullScreenControl
    fclicks,    \* the clicks on its button
    menuctl,    \* a MenuControl
    maplast,    \* the last operation on the controls of the map
    planet,     \* a PlanetView
    plast,      \* the last operation on it
    pbefore,    \* the view as it was before the last operation
    cwd,        \* the directory the program runs in
    dbtn,       \* the outcome of the last DownloadBtn construction
    binding,    \* an input widget bound to an object by an Alert
    blast,      \* the last operation on it
    bprev,      \* the binding as it was before the last operation
    scolor,     \* a SepalColor and the theme settings around it
    clast       \* the last operation on them

wvars == <<widget, wlast, wbefore, whidden, wpair, warg, wraised>>
mvars == <<select_methods, local_select_methods, msel>>

avars == <<model, mlast, mbefore, mwrites>>

vvars == <<view, vlast, vupdated>>

cvars == <<fsc, fclicks, menuctl, maplast>>

pvars == <<planet, plast, pbefore>>

dvars == <<cwd, dbtn>>

bvars == <<binding, blast, bprev>>

svars == <<scolor, clast>>

vars == <<wvars, mvars, avars, vvars, cvars, pvars, dvars, bvars, svars>>

\* what the operations of one component leave alone
WidgetOnly == UNCHANGED <<mvars, avars, vvars, cvars, pvars, dvars, bvars, svars>>
MethodOnly == UNCHANGED <<wvars, avars, vvars, cvars, pvars, dvars, bvars, svars>>
ModelOnly == UNCHANGED <<wvars, mvars, vvars, cvars, pvars, dvars, bvars, svars>>
ViewOnly == UNCHANGED <<wvars, mvars, avars, cvars, pvars, dvars, bvars, svars>>
MapOnly == UNCHANGED <<wvars, mvars, avars, vvars, pvars, dvars, bvars, svars>>
PlanetOnly == UNCHANGED <<wvars, mvars, avars, vvars, cvars, dvars, bvars, svars>>
DownloadOnly == UNCHANGED <<wvars, mvars, avars, vvars, cvars, pvars, bvars, svars>>
BindOnly == UNCHANGED <<wvars, mvars, avars, vvars, cvars, pvars, dvars, svars>>
ColorOnly == UNCHANGED <<wvars, mvars, avars, vvars, cvars, pvars, dvars, bvars>>

(***************************************************************************)
(* The operations of a SepalWidget.                                        *)
(***************************************************************************)
InitWidget ==
    /\ \E b \in BOOLEAN, c \in UserClasses : widget = NewSepalWidget(b, c, None, <<>>)
    /\ wlast = "init"
    /\ wbefore = widget
    /\ whidden = widget
    /\ wpair = FALSE
    /\ warg = NoChildrenArg
    /\ wraised = FALSE
    /\ select_methods = AllMethods
    /\ local_select_methods = LocalMethods
    /\ msel = NoSelect
    /\ model = IdleModel
    /\ mlast = "init"
    /\ mbefore = IdleModel
    /\ mwrites = 0
    /\ view = IdleView
    /\ vlast = "init"
    /\ vupdated = 0
    /\ fsc = IdleFullScreen
    /\ fclicks = 0
    /\ menuctl = NewMenuControl
    /\ maplast = "init"
    /\ planet = IdlePlanetView
    /\ plast = "init"
    /\ pbefore = IdlePlanetView
    /\ cwd = Home
    /\ dbtn = NoBtn
    /\ binding = IdleBinding
    /\ blast = "init"
    /\ bprev = IdleBinding
    /\ scolor = IdleColor
    /\ clast = "init"

hide ==
    /\ widget' = WHide(widget)
    /\ wlast' = "hide"
    /\ wbefore' = widget
    /\ whidden' = widget
    /\ wpair' = FALSE
    /\ wraised' = FALSE
    /\ warg' = NoChildrenArg
    /\ WidgetOnly

show ==
    /\ widget' = WShow(widget)
    /\ wlast' = "show"
    /\ wbefore' = widget
    /\ wpair' = (wlast = "hide")
    /\ UNCHANGED whidden
    /\ wraised' = FALSE
    /\ warg' = NoChildrenArg
    /\ WidgetOnly

toggle_viz ==
    /\ widget' = WToggleViz(widget)
    /\ wlast' = "toggle_viz"
    /\ wbefore' = widget
    /\ wpair' = FALSE
    /\ UNCHANGED whidden
    /\ wraised' = FALSE
    /\ warg' = NoChildrenArg
    /\ WidgetOnly

set_viz ==
    /\ \E b \in BOOLEAN : widget' = AssignViz(widget, b)
    /\ wlast' = "viz"
    /\ wbefore' = widget
    /\ wpair' = FALSE
    /\ UNCHANGED whidden
    /\ wraised' = FALSE
    /\ warg' = NoChildrenArg
    /\ WidgetOnly

NextWidget == hide \/ show \/ toggle_viz \/ set_viz

SpecWidget == InitWidget /\ [][NextWidget]_vars

(***************************************************************************)
(* The operations on the v_model and the children of a SepalWidget, shown  *)
(* or hidden.                                                              *)
(***************************************************************************)
InitTraits ==
    /\ \E b \in BOOLEAN, c \in {PyNone, PyStr(<<"a">>)}, v_model \in WidgetValues,
          children \in SeqUpTo(Childs, 1) :
        widget = NewSepalWidget(b, c, v_model, children)
    /\ wlast = "init"
    /\ wbefore = widget
    /\ whidden = widget
    /\ wpair = FALSE
    /\ warg = NoChildrenArg
    /\ wraised = FALSE
    /\ select_methods = AllMethods
    /\ local_select_methods = LocalMethods
    /\ msel = NoSelect
    /\ model = IdleModel
    /\ mlast = "init"
    /\ mbefore = IdleModel
    /\ mwrites = 0
    /\ view = IdleView
    /\ vlast = "init"
    /\ vupdated = 0
    /\ fsc = IdleFullScreen
    /\ fclicks = 0
    /\ menuctl = NewMenuControl
    /\ maplast = "init"
    /\ planet = IdlePlanetView
    /\ plast = "init"
    /\ pbefore = IdlePlanetView
    /\ cwd = Home
    /\ dbtn = NoBtn
    /\ binding = IdleBinding
    /\ blast = "init"
    /\ bprev = IdleBinding
    /\ scolor = IdleColor
    /\ clast = "init"

\* an assignment to the trait v_model
set_v_model ==
    /\ \E v_model \in WidgetValues : widget' = [widget EXCEPT !.v_model = v_model]
    /\ wlast' = "v_model"
    /\ wbefore' = widget
    /\ wpair' = FALSE
    /\ wraised' = FALSE
    /\ warg' = NoChildrenArg
    /\ UNCHANGED whidden
    /\ WidgetOnly

\* widget.reset()
widget_reset ==
    /\ widget' = WReset(widget)
    /\ wlast' = "reset"
    /\ wbefore' = widget
    /\ wpair' = FALSE
    /\ wraised' = FALSE
    /\ warg' = NoChildrenArg
    /\ UNCHANGED whidden
    /\ WidgetOnly

\* widget.set_children(children, position)
widget_set_children ==
    /\ \E arg \in ChildrenArgs :
        /\ Len(set_children(widget, arg).widget.children) <= MaxChildren
        /\ widget' = set_children(widget, arg).widget
        /\ wraised' = set_children(widget, arg).raised
        /\ warg' = arg
    /\ wlast' = "set_children"
    /\ wbefore' = widget
    /\ wpair' = FALSE
    /\ UNCHANGED whidden
    /\ WidgetOnly

NextTraits == toggle_viz \/ set_v_model \/ widget_reset \/ widget_set_children

SpecTraits == InitTraits /\ [][NextTraits]_vars

(***************************************************************************)
(* The construction of method selectors.  One selector is looked at at a   *)
(* time: the caller drops it before it builds the next one.                *)
(***************************************************************************)
InitMethod ==
    /\ widget = IdleWidget
    /\ wlast = "init"
    /\ wbefore = IdleWidget
    /\ whidden = IdleWidget
    /\ wpair = FALSE
    /\ warg = NoChildrenArg
    /\ wraised = FALSE
    /\ select_methods = AllMethods
    /\ local_select_methods = LocalMethods
    /\ msel = NoSelect
    /\ model = IdleModel
    /\ mlast = "init"
    /\ mbefore = IdleModel
    /\ mwrites = 0
    /\ view = IdleView
    /\ vlast = "init"
    /\ vupdated = 0
    /\ fsc = IdleFullScreen
    /\ fclicks = 0
    /\ menuctl = NewMenuControl
    /\ maplast = "init"
    /\ planet = IdlePlanetView
    /\ plast = "init"
    /\ pbefore = IdlePlanetView
    /\ cwd = Home
    /\ dbtn = NoBtn
    /\ binding = IdleBinding
    /\ blast = "init"
    /\ bprev = IdleBinding
    /\ scolor = IdleColor
    /\ clast = "init"

\* MethodSelect(methods, gee, map_) of aoi/aoi_view.py
MethodSelectInit ==
    /\ msel = NoSelect
    /\ \E arg \in MethodArgs, gee \in BOOLEAN, map_ \in BOOLEAN :
        LET b == BuildMethods(arg, select_methods)
            cleaned == Clean(b.methods, gee, map_)
            call == [NoSelect EXCEPT !.version = "main", !.arg = arg, !.gee = gee,
                                     !.map_ = map_]
        IN  /\ msel' = IF b.raised
                       THEN [call EXCEPT !.raised = TRUE]
                       ELSE [call EXCEPT !.built = TRUE, !.pre = b.methods,
                                         !.methods = cleaned, !.items = Items(cleaned)]
            /\ select_methods' = IF ~b.raised /\ b.alias THEN cleaned ELSE select_methods
    /\ UNCHANGED local_select_methods
    /\ MethodOnly

\* MethodSelect(methods) of aoi/local_aoi/aoi_view.py
LocalMethodSelectInit ==
    /\ msel = NoSelect
    /\ \E arg \in MethodArgs :
        LET b == LocalBuildMethods(arg, local_select_methods)
            call == [NoSelect EXCEPT !.version = "local", !.arg = arg]
        IN  /\ msel' = IF b.raised
                       THEN [call EXCEPT !.raised = TRUE]
                       ELSE [call EXCEPT !.built = TRUE, !.pre = b.methods,
                                         !.methods = b.methods, !.items = Items(b.methods)]
            /\ local_select_methods' = b.table
    /\ UNCHANGED select_methods
    /\ MethodOnly

\* the selector (or the exception) is dropped; the tables stay as they are
DropSelect ==
    /\ msel # NoSelect
    /\ msel' = NoSelect
    /\ UNCHANGED <<select_methods, local_select_methods>>
    /\ MethodOnly

NextMethod == MethodSelectInit \/ LocalMethodSelectInit \/ DropSelect

SpecMethod == InitMethod /\ [][NextMethod]_vars

(***************************************************************************)
(* The operations of an AoiModel.                                          *)
(***************************************************************************)
InitModel ==
    /\ widget = IdleWidget
    /\ wlast = "init"
    /\ wbefore = IdleWidget
    /\ whidden = IdleWidget
    /\ wpair = FALSE
    /\ warg = NoChildrenArg
    /\ wraised = FALSE
    /\ select_methods = AllMethods
    /\ local_select_methods = LocalMethods
    /\ msel = NoSelect
    /\ \E d \in Defaults, gee \in BOOLEAN :
        /\ d = "asset" => gee
        /\ model = NewModel(d, gee)
    /\ mlast = "init"
    /\ mbefore = model
    /\ mwrites = 0
    /\ view = IdleView
    /\ vlast = "init"
    /\ vupdated = 0
    /\ fsc = IdleFullScreen
    /\ fclicks = 0
    /\ menuctl = NewMenuControl
    /\ maplast = "init"
    /\ planet = IdlePlanetView
    /\ plast = "init"
    /\ pbefore = IdlePlanetView
    /\ cwd = Home
    /\ dbtn = NoBtn
    /\ binding = IdleBinding
    /\ blast = "init"
    /\ bprev = IdleBinding
    /\ scolor = IdleColor
    /\ clast = "init"

\* setattr(aoi_model, a, "dum"), a being an input trait or an output
set_attr ==
    /\ mwrites < MaxWrites
    /\ \E a \in ModelAttrs : model' = [model EXCEPT !.attrs[a] = "dum"]
    /\ mlast' = "setattr"
    /\ mbefore' = model
    /\ mwrites' = mwrites + 1
    /\ ModelOnly

\* the dummy is written to every input trait and every output
set_all_attrs ==
    /\ mwrites < MaxWrites
    /\ model' = [model EXCEPT !.attrs = [a \in ModelAttrs |-> "dum"]]
    /\ mlast' = "setattr"
    /\ mbefore' = model
    /\ mwrites' = mwrites + 1
    /\ ModelOnly

clear_attributes ==
    /\ model' = ClearAttributes(model)
    /\ mlast' = "clear_attributes"
    /\ mbefore' = model
    /\ mwrites' = 0
    /\ ModelOnly

clear_output ==
    /\ model' = ClearOutput(model)
    /\ mlast' = "clear_output"
    /\ mbefore' = model
    /\ UNCHANGED mwrites
    /\ ModelOnly

NextModel == set_attr \/ set_all_attrs \/ clear_attributes \/ clear_output

SpecModel == InitModel /\ [][NextModel]_vars

(***************************************************************************)
(* The operations of an AoiView.                                           *)
(***************************************************************************)
InitView ==
    /\ widget = IdleWidget
    /\ wlast = "init"
    /\ wbefore = IdleWidget
    /\ whidden = IdleWidget
    /\ wpair = FALSE
    /\ warg = NoChildrenArg
    /\ wraised = FALSE
    /\ select_methods = AllMethods
    /\ local_select_methods = LocalMethods
    /\ msel = NoSelect
    /\ model = IdleModel
    /\ mlast = "init"
    /\ mbefore = IdleModel
    /\ mwrites = 0
    /\ \E word \in {"ALL", "ADMIN", "CUSTOM"}, has_map \in BOOLEAN, gee \in BOOLEAN,
          d \in Defaults :
        /\ d = "asset" => gee
        /\ view = NewView(word, has_map, gee, d)
    /\ vlast = "init"
    /\ vupdated = 0
    /\ fsc = IdleFullScreen
    /\ fclicks = 0
    /\ menuctl = NewMenuControl
    /\ maplast = "init"
    /\ planet = IdlePlanetView
    /\ plast = "init"
    /\ pbefore = IdlePlanetView
    /\ cwd = Home
    /\ dbtn = NoBtn
    /\ binding = IdleBinding
    /\ blast = "init"
    /\ bprev = IdleBinding
    /\ scolor = IdleColor
    /\ clast = "init"

\* a method (or none) is chosen in the selector
select_method ==
    /\ \E new \in Range(view.offered) \cup {None} :
        /\ view' = AssignMethod(view, new)
        /\ vlast' = IF view.w_method = new THEN "same_method" ELSE "_activate"
    /\ vupdated' = view.updated
    /\ ViewOnly

\* a value is given to (or cleared from) an input component on display
set_input ==
    /\ \E key \in DOMAIN view.comps, val \in {None, "input"} :
        /\ view.comps[key].viz
        /\ view' = AssignVModel(view, key, val)
    /\ vlast' = "input"
    /\ vupdated' = view.updated
    /\ ViewOnly

\* a shape is drawn on the map with the drawing control
draw ==
    /\ view.has_map
    /\ view.map.dc_viz
    /\ view' = [view EXCEPT !.map.drawn = TRUE]
    /\ vlast' = "draw"
    /\ vupdated' = view.updated
    /\ ViewOnly

\* the validation button is clicked
click_btn ==
    /\ view.updated < MaxUpdates
    /\ view' = _update_aoi(view)
    /\ vlast' = IF CanResolve(ClickModel(view)) THEN "update_done" ELSE "update_failed"
    /\ vupdated' = view.updated
    /\ ViewOnly

reset ==
    /\ view' = ViewReset(view)
    /\ vlast' = "reset"
    /\ vupdated' = view.updated
    /\ ViewOnly

NextView == select_method \/ set_input \/ draw \/ click_btn \/ reset

SpecView == InitView /\ [][NextView]_vars

(***************************************************************************)
(* The operations of the controls of a map.                                *)
(***************************************************************************)
InitMap ==
    /\ widget = IdleWidget
    /\ wlast = "init"
    /\ wbefore = IdleWidget
    /\ whidden = IdleWidget
    /\ wpair = FALSE
    /\ warg = NoChildrenArg
    /\ wraised = FALSE
    /\ select_methods = AllMethods
    /\ local_select_methods = LocalMethods
    /\ msel = NoSelect
    /\ model = IdleModel
    /\ mlast = "init"
    /\ mbefore = IdleModel
    /\ mwrites = 0
    /\ view = IdleView
    /\ vlast = "init"
    /\ vupdated = 0
    /\ \E fullscreen \in BOOLEAN, position \in Positions :
        fsc = NewFullScreenControl(fullscreen, position)
    /\ fclicks = 0
    /\ menuctl = NewMenuControl
    /\ maplast = "init"
    /\ planet = IdlePlanetView
    /\ plast = "init"
    /\ pbefore = IdlePlanetView
    /\ cwd = Home
    /\ dbtn = NoBtn
    /\ binding = IdleBinding
    /\ blast = "init"
    /\ bprev = IdleBinding
    /\ scolor = IdleColor
    /\ clast = "init"

\* the button of the fullscreen control is clicked
click_fullscreen ==
    /\ fclicks < MaxClicks
    /\ fsc' = toggle_fullscreen(fsc)
    /\ fclicks' = fclicks + 1
    /\ maplast' = "click"
    /\ UNCHANGED menuctl
    /\ MapOnly

\* an assignment to the position of the menu control
set_position ==
    /\ \E p \in Positions :
        /\ menuctl' = AssignPosition(menuctl, p)
        /\ maplast' = IF menuctl.position = p THEN "same_position" ELSE "position"
    /\ UNCHANGED <<fsc, fclicks>>
    /\ MapOnly

\* the button of the menu control is clicked: the menu opens or closes
click_menu ==
    /\ menuctl' = [menuctl EXCEPT !.menu.v_model = ~@]
    /\ maplast' = "menu"
    /\ UNCHANGED <<fsc, fclicks>>
    /\ MapOnly

NextMap == click_fullscreen \/ set_position \/ click_menu

SpecMap == InitMap /\ [][NextMap]_vars

(***************************************************************************)
(* The operations of a PlanetView.                                         *)
(***************************************************************************)
InitPlanet ==
    /\ widget = IdleWidget
    /\ wlast = "init"
    /\ wbefore = IdleWidget
    /\ whidden = IdleWidget
    /\ wpair = FALSE
    /\ warg = NoChildrenArg
    /\ wraised = FALSE
    /\ select_methods = AllMethods
    /\ local_select_methods = LocalMethods
    /\ msel = NoSelect
    /\ model = IdleModel
    /\ mlast = "init"
    /\ mbefore = IdleModel
    /\ mwrites = 0
    /\ view = IdleView
    /\ vlast = "init"
    /\ vupdated = 0
    /\ fsc = IdleFullScreen
    /\ fclicks = 0
    /\ menuctl = NewMenuControl
    /\ maplast = "init"
    /\ \E has_reset \in BOOLEAN : planet = NewPlanetView(has_reset)
    /\ plast = "init"
    /\ pbefore = planet
    /\ cwd = Home
    /\ dbtn = NoBtn
    /\ binding = IdleBinding
    /\ blast = "init"
    /\ bprev = IdleBinding
    /\ scolor = IdleColor
    /\ clast = "init"

\* a login method is chosen in the selector
set_login_method ==
    /\ \E new \in LoginMethods :
        /\ planet' = AssignLoginMethod(planet, new)
        /\ plast' = IF planet.w_method = new THEN "same_method" ELSE "_swap_inputs"
    /\ pbefore' = planet
    /\ PlanetOnly

\* the user types in a credential field on display
type_credential ==
    /\ \E f \in {"w_username", "w_password", "w_key"}, val \in Typed :
        /\ planet[f].viz
        /\ planet' = [planet EXCEPT ![f].v_model = val, !.raised = FALSE]
    /\ plast' = "type"
    /\ pbefore' = planet
    /\ PlanetOnly

\* the validation button is clicked
click_validate ==
    /\ \E accepted \in BOOLEAN : planet' = PlanetValidate(planet, accepted)
    /\ plast' = "validate"
    /\ pbefore' = planet
    /\ PlanetOnly

NextPlanet == set_login_method \/ type_credential \/ click_validate

SpecPlanet == InitPlanet /\ [][NextPlanet]_vars

(***************************************************************************)
(* The construction of download buttons.  One button is looked at at a     *)
(* time.                                                                   *)
(***************************************************************************)
InitDownload ==
    /\ widget = IdleWidget
    /\ wlast = "init"
    /\ wbefore = IdleWidget
    /\ whidden = IdleWidget
    /\ wpair = FALSE
    /\ warg = NoChildrenArg
    /\ wraised = FALSE
    /\ select_methods = AllMethods
    /\ local_select_methods = LocalMethods
    /\ msel = NoSelect
    /\ model = IdleModel
    /\ mlast = "init"
    /\ mbefore = IdleModel
    /\ mwrites = 0
    /\ view = IdleView
    /\ vlast = "init"
    /\ vupdated = 0
    /\ fsc = IdleFullScreen
    /\ fclicks = 0
    /\ menuctl = NewMenuControl
    /\ maplast = "init"
    /\ planet = IdlePlanetView
    /\ plast = "init"
    /\ pbefore = IdlePlanetView
    /\ cwd \in WorkDirs
    /\ dbtn = NoBtn
    /\ binding = IdleBinding
    /\ blast = "init"
    /\ bprev = IdleBinding
    /\ scolor = IdleColor
    /\ clast = "init"

\* DownloadBtn(text, path), the path being given or left out
DownloadBtnInit ==
    /\ dbtn = NoBtn
    /\ \E arg \in PathArgs : dbtn' = NewDownloadBtn(arg, cwd)
    /\ UNCHANGED cwd
    /\ DownloadOnly

\* the button (or the exception) is dropped
DropBtn ==
    /\ dbtn # NoBtn
    /\ dbtn' = NoBtn
    /\ UNCHANGED cwd
    /\ DownloadOnly

NextDownload == DownloadBtnInit \/ DropBtn

SpecDownload == InitDownload /\ [][NextDownload]_vars

(***************************************************************************)
(* The events of an input widget bound by Alert.bind.                      *)
(***************************************************************************)
InitBind ==
    /\ widget = IdleWidget
    /\ wlast = "init"
    /\ wbefore = IdleWidget
    /\ whidden = IdleWidget
    /\ wpair = FALSE
    /\ warg = NoChildrenArg
    /\ wraised = FALSE
    /\ select_methods = AllMethods
    /\ local_select_methods = LocalMethods
    /\ msel = NoSelect
    /\ model = IdleModel
    /\ mlast = "init"
    /\ mbefore = IdleModel
    /\ mwrites = 0
    /\ view = IdleView
    /\ vlast = "init"
    /\ vupdated = 0
    /\ fsc = IdleFullScreen
    /\ fclicks = 0
    /\ menuctl = NewMenuControl
    /\ maplast = "init"
    /\ planet = IdlePlanetView
    /\ plast = "init"
    /\ pbefore = IdlePlanetView
    /\ cwd = Home
    /\ dbtn = NoBtn
    /\ \E msg \in BindMsgs, v_model \in InputValues, attr \in InputValues \cup {Unset} :
        binding = NewBinding(msg, v_model, attr)
    /\ blast = "init"
    /\ bprev = binding
    /\ scolor = IdleColor
    /\ clast = "init"

\* the user changes the value of the widget: v_model takes the value and
\* the 'change' event is handled
change_event ==
    /\ \E val \in InputValues : binding' = on_change([binding EXCEPT !.v_model = val])
    /\ blast' = "change"
    /\ bprev' = binding
    /\ BindOnly

\* the program assigns v_model: no event
assign_input ==
    /\ \E val \in InputValues : binding' = [binding EXCEPT !.v_model = val]
    /\ blast' = "assign"
    /\ bprev' = binding
    /\ BindOnly

\* alert.reset()
alert_reset ==
    /\ binding' = [binding EXCEPT !.alert = LegacyReset(@)]
    /\ blast' = "reset"
    /\ bprev' = binding
    /\ BindOnly

NextBind == change_event \/ assign_input \/ alert_reset

SpecBind == InitBind /\ [][NextBind]_vars

(***************************************************************************)
(* The operations on a SepalColor and on the settings around it.           *)
(***************************************************************************)
InitSepalColor ==
    /\ widget = IdleWidget
    /\ wlast = "init"
    /\ wbefore = IdleWidget
    /\ whidden = IdleWidget
    /\ wpair = FALSE
    /\ warg = NoChildrenArg
    /\ wraised = FALSE
    /\ select_methods = AllMethods
    /\ local_select_methods = LocalMethods
    /\ msel = NoSelect
    /\ model = IdleModel
    /\ mlast = "init"
    /\ mbefore = IdleModel
    /\ mwrites = 0
    /\ view = IdleView
    /\ vlast = "init"
    /\ vupdated = 0
    /\ fsc = IdleFullScreen
    /\ fclicks = 0
    /\ menuctl = NewMenuControl
    /\ maplast = "init"
    /\ planet = IdlePlanetView
    /\ plast = "init"
    /\ pbefore = IdlePlanetView
    /\ cwd = Home
    /\ dbtn = NoBtn
    /\ binding = IdleBinding
    /\ blast = "init"
    /\ bprev = IdleBinding
    /\ \E conf \in ConfThemes, new_colors \in NewColors :
        scolor = NewSepalColor(conf, new_colors)
    /\ clast = "init"

\* an assignment to the trait _dark_theme
set_dark_theme ==
    /\ \E b \in BOOLEAN :
        /\ scolor' = AssignDarkTheme(scolor, b)
        /\ clast' = IF scolor._dark_theme = b THEN "same_theme" ELSE "change"
    /\ ColorOnly

\* the configuration file is written by someone else
write_config ==
    /\ \E t \in ConfThemes : scolor' = [scolor EXCEPT !.config_theme = t]
    /\ clast' = "config"
    /\ ColorOnly

\* the dark flag of vuetify is set by someone else
set_vuetify_dark ==
    /\ \E b \in BOOLEAN : scolor' = [scolor EXCEPT !.v_theme_dark = b]
    /\ clast' = "vuetify"
    /\ ColorOnly

NextSepalColor == set_dark_theme \/ write_config \/ set_vuetify_dark

SpecSepalColor == InitSepalColor /\ [][NextSepalColor]_vars

Normalised(c) == IF c.none THEN PyStr(<<>>) ELSE PyStr(Join(Split(c.chars)))

Available == IF msel.version = "local" THEN LocalMethods ELSE AllMethods

IsWord(arg, w) == arg.kind = "str" /\ arg.word = w
IsPlainList(arg) == arg.kind = "list" /\ arg.list # <<>> /\ ~AnyMinus(arg.list)
IsMinusList(arg) == arg.kind = "list" /\ arg.list # <<>> /\ AllMinus(arg.list)
Named(arg) == Range(Names(arg.list))
OfType(t) == {k \in Range(Available) : MethodType(k) = t}

\* C5: before the gee/map filtering the selector lists: for 'ALL' every
\* available method, for 'ADMIN' exactly the methods of type ADMIN, for
\* 'CUSTOM' exactly those of type CUSTOM, for a list of plain names exactly
\* those names, for a list of '-'-prefixed names every available method but
\* the named ones.
C5_ListsRequestedMethods ==
    LET arg == msel.arg
        lists(S) == msel.built /\ Range(msel.pre) = S
    IN  msel.version # "none" =>
            /\ IsWord(arg, "ALL") => lists(Range(Available))
            /\ IsWord(arg, "ADMIN") => lists(OfType(ADMIN))
            /\ IsWord(arg, "CUSTOM") => lists(OfType(CUSTOM))
            /\ IsPlainList(arg) /\ Named(arg) \subseteq Range(Available) => lists(Named(arg))
            /\ IsMinusList(arg) /\ Named(arg) \subseteq Range(Available)
                   => lists(Range(Available) \ Named(arg))

\* C6: a list with both '-'-prefixed and unprefixed names raises, and so does
\* an argument that is neither 'ALL', 'ADMIN', 'CUSTOM' nor a list; no
\* selector is built then.
C6_MixedOrUnknownRaises ==
    LET arg == msel.arg
        mixed == arg.kind = "list" /\ AnyMinus(arg.list) /\ ~AllMinus(arg.list)
        unknown == arg.kind = "other"
                   \/ (arg.kind = "str" /\ arg.word \notin {"ALL", "ADMIN", "CUSTOM"})
    IN  msel.version # "none" /\ (mixed \/ unknown) => msel.raised /\ ~msel.built

\* a list that adds one method and removes another was refused
C6_Witness ==
    /\ msel.version = "main"
    /\ msel.arg.kind = "list"
    /\ Len(msel.arg.list) = 2
    /\ msel.arg.list[1].minus
    /\ ~msel.arg.list[2].minus
    /\ msel.raised
    /\ ~msel.built

ItemValues(items) == {items[i].value : i \in {j \in DOMAIN items : ~items[j].header}}

\* C7: whatever the methods argument, a selector built with gee=False does
\* not offer ASSET and one built without a map does not offer DRAW.
C7_NoAssetNoDraw ==
    msel.version = "main" /\ msel.built =>
        /\ ~msel.gee => "ASSET" \notin Range(msel.methods) \cup ItemValues(msel.items)
        /\ ~msel.map_ => "DRAW" \notin Range(msel.methods) \cup ItemValues(msel.items)

\* the caller's list names ASSET and DRAW, and the selector built without
\* gee and without a map offers neither
C7_Witness ==
    /\ msel.version = "main"
    /\ msel.built
    /\ ~msel.gee
    /\ ~msel.map_
    /\ IsPlainList(msel.arg)
    /\ Named(msel.arg) = {"ASSET", "DRAW"}
    /\ msel.methods = <<>>

(***************************************************************************)
(* Claims about AoiModel.                                                  *)
(***************************************************************************)
\* C3: clear_attributes() sets every input trait and every output to None
\* when the model was built without a default; when it was built with a
\* default (admin, vector or asset) it discards what was set afterwards and
\* restores the AOI of that default (name is again 'FRA' for admin 85).
C3_ClearAttributes ==
    mlast = "clear_attributes" =>
        /\ model.default = "none" => \A a \in ModelAttrs : model.attrs[a] = None
        /\ model.default # "none" =>
              /\ \A a \in ModelAttrs : model.attrs[a] # "dum"
              /\ model.attrs["gdf"] # None
              /\ model.attrs["name"] # None
              /\ model = NewModel(model.default, model.ee)
        /\ model.default = "admin" =>
              model.attrs["admin"] = "85" /\ model.attrs["name"] = "FRA"

\* a model built with the default admin, then filled with the dummy, was
\* cleared
C3_Witness ==
    /\ mlast = "clear_attributes"
    /\ model.default = "admin"
    /\ \A a \in ModelAttrs : mbefore.attrs[a] = "dum"
    /\ model.attrs["name"] = "FRA"
    /\ model.attrs["method"] = "ADMIN0"

\* C4: clear_output() sets all the outputs to None, whatever AOI had been
\* resolved before.
C4_ClearOutput ==
    mlast = "clear_output" => \A a \in aoi_model_outputs : model.attrs[a] = None

\* the outputs of a resolved default are cleared, its inputs are kept
C4_Witness ==
    /\ mlast = "clear_output"
    /\ model.default = "asset"
    /\ mbefore.attrs["gdf"] = "gdf"
    /\ mbefore.attrs["feature_collection"] = "fc"
    /\ model.attrs["asset_name"] = "italy"
    /\ \A a \in aoi_model_outputs : model.attrs[a] = None

(***************************************************************************)
(* Claims about AoiView.                                                   *)
(***************************************************************************)
Visible == {k \in DOMAIN view.comps : view.comps[k].viz}

\* the components a method puts on display
Displayed(new) ==
    CASE new = "ADMIN0" -> {"ADMIN0"}
      [] new = "ADMIN1" -> {"ADMIN0", "ADMIN1"}
      [] new = "ADMIN2" -> {"ADMIN0", "ADMIN1", "ADMIN2"}
      [] OTHER -> {new} \cap DOMAIN view.comps

\* C8: after _activate for method ADMINk exactly the admin fields of level
\* 0..k are visible and every other component is hidden; for any other
\* method key only the component of that key is visible; for None every
\* component is hidden.
C8_ActivateShowsParents ==
    vlast = "_activate" =>
        /\ Visible = Displayed(view.w_method)
        /\ \A k \in DOMAIN view.comps : HasDNone(view.comps[k].class_) <=> k \notin Visible

\* the admin field of level 2 was activated and its two parents are shown
C8_Witness ==
    /\ vlast = "_activate"
    /\ view.w_method = "ADMIN2"
    /\ Visible = {"ADMIN0", "ADMIN1", "ADMIN2"}

\* C9: updated starts at 0, increases by exactly 1 each time _update_aoi
\* runs to completion, does not increase when the model update fails, and
\* is not decreased or reset by reset() or _activate (nor by anything else).
C9_UpdatedCountsSelections ==
    /\ vlast = "init" => view.updated = 0
    /\ vlast = "update_done" => view.updated = vupdated + 1
    /\ vlast \notin {"init", "update_done"} => view.updated = vupdated

\* two AOIs were selected, then the view was reset
C9_Witness ==
    /\ vlast = "reset"
    /\ vupdated = 2
    /\ view.updated = 2

RECURSIVE NegTimes(_, _)
NegTimes(b, n) == IF n = 0 THEN b ELSE ~NegTimes(b, n - 1)

\* C11: after n clicks the zoomed state is the initial fullscreen value
\* negated n times; the icon of the button is ICONS[zoomed] ('fas fa-compress'
\* when expanded, 'fas fa-expand' when embedded); each click sent exactly one
\* message, and the method of the last one is METHODS[zoomed] ('fullscreen'
\* when expanded, 'embed' when embedded).
C11_FullScreenInStep ==
    /\ fsc.zoomed = NegTimes(fsc.fullscreen, fclicks)
    /\ fsc.logo = AtBool(ICONS, fsc.zoomed)
    /\ fsc.logo = IF fsc.zoomed THEN "fas fa-compress" ELSE "fas fa-expand"
    /\ Len(fsc.sent) = fclicks
    /\ fclicks > 0 =>
          /\ fsc.sent[fclicks] = AtBool(METHODS, fsc.zoomed)
          /\ fsc.sent[fclicks] = IF fsc.zoomed THEN "fullscreen" ELSE "embed"

\* a map that started in fullscreen was clicked three times
C11_Witness ==
    /\ fclicks = 3
    /\ fsc.fullscreen
    /\ ~fsc.zoomed
    /\ fsc.logo = "fas fa-expand"
    /\ fsc.sent = <<"embed", "fullscreen", "embed">>

\* C12: right after construction and after every change of position,
\* menu.top is ('bottom' in position), menu.bottom is ('top' in position),
\* menu.left is ('right' in position) and menu.right is ('left' in
\* position); exactly one of top/bottom and one of left/right is set.
C12_MenuFollowsPosition ==
    maplast \in {"init", "position"} =>
        /\ menuctl.menu.top = IsIn(BOTTOM, menuctl.position)
        /\ menuctl.menu.bottom = IsIn(TOP, menuctl.position)
        /\ menuctl.menu.left = IsIn(RIGHT, menuctl.position)
        /\ menuctl.menu.right = IsIn(LEFT, menuctl.position)
        /\ menuctl.menu.top # menuctl.menu.bottom
        /\ menuctl.menu.left # menuctl.menu.right

\* the control was moved to the top left: the menu opens to the bottom right
C12_Witness ==
    /\ maplast = "position"
    /\ menuctl.position = TOP \o LEFT
    /\ menuctl.menu.bottom
    /\ menuctl.menu.right
    /\ ~menuctl.menu.top
    /\ ~menuctl.menu.left

(***************************************************************************)
(* Claims about PlanetView.                                                *)
(***************************************************************************)
\* C13: initially and after any sequence of login-method changes the API
\* key field is visible exactly when the method is 'api_key' and the
\* username and password fields are visible exactly when it is not; every
\* method change sets the three credential fields to None, resets the alert
\* and re-initialises the client of the model with no credentials.
C13_SwapInputs ==
    /\ planet.w_key.viz <=> planet.w_method = "api_key"
    /\ planet.w_username.viz <=> planet.w_method # "api_key"
    /\ planet.w_password.viz <=> planet.w_method # "api_key"
    /\ plast = "_swap_inputs" =>
          /\ planet.w_username.v_model = None
          /\ planet.w_password.v_model = None
          /\ planet.w_key.v_model = None
          /\ ~planet.alert.viz
          /\ planet.alert.msg = ""
          /\ planet.planet_model.credentials = NoCredentials

(***************************************************************************)
(* Claims about the v_model and the children of a SepalWidget.             *)
(***************************************************************************)
\* C14: reset() sets v_model to None whatever it was, and leaves viz, class_
\* and children as they were.
C14_ResetClearsVModel ==
    wlast = "reset" =>
        /\ widget.v_model = None
        /\ widget.viz = wbefore.viz
        /\ widget.class_ = wbefore.class_
        /\ widget.children = wbefore.children

\* a hidden widget with a value and a child was reset
C14_Witness ==
    /\ wlast = "reset"
    /\ wbefore.v_model = "toto"
    /\ widget.v_model = None
    /\ ~widget.viz
    /\ widget.children = <<"x">>

\* the children given to the last set_children, as a list
GivenChildren == IF warg.kind = "list" THEN warg.list ELSE <<warg.one>>

\* C15: set_children(children, position) with position 'first' (the
\* default) leaves the given children followed by the old ones, with 'last'
\* the old ones followed by the given children, one child that is not a list
\* counting as a list of one; any other position raises ValueError and
\* leaves the children as they were.
C15_SetChildren ==
    wlast = "set_children" =>
        /\ warg.position \in {"default", "first"} =>
              ~wraised /\ widget.children = GivenChildren \o wbefore.children
        /\ warg.position = "last" =>
              ~wraised /\ widget.children = wbefore.children \o GivenChildren
        /\ warg.position \notin {"default", "first", "last"} =>
              wraised /\ widget.children = wbefore.children

\* one child that is not a list was put after the child of the widget
C15_Witness ==
    /\ wlast = "set_children"
    /\ warg.kind = "one"
    /\ warg.position = "last"
    /\ wbefore.children = <<"x">>
    /\ widget.children = <<"x", "y">>

(***************************************************************************)
(* Claims about DownloadBtn.                                               *)
(***************************************************************************)
\* what follows '/api/files/download?path=/' in a link
Rel(href) == SubSeq(href, 3, Len(href))

\* r, read from the home directory, names the file the path names: both
\* lead through the same directories from the root
NamesFromHome(r, path) ==
    /\ ~StartsWith(r, <<SLASH>>)
    /\ Comps(abspath(Home \o <<SLASH>> \o r, cwd)) = Comps(abspath(expanduser(path), cwd))

\* a path that is neither rooted nor written from the home directory
Relative(path) == ~StartsWith(path, <<SLASH>>) /\ ~StartsWith(path, <<"~">>)

\* a relative path in normal form: components separated by single
\* slashes, none of them '.' or '..'
PlainRelative(path) ==
    /\ path # <<>>
    /\ Relative(path)
    /\ path = JoinPath(Comps(path))
    /\ \A i \in DOMAIN Comps(path) : Comps(path)[i] \notin {DOT, DOTDOT}

\* the program runs in the home directory of the user or below it
RunsInHome == StartsWith(Comps(cwd), Comps(Home))

\* C16 (as stated): when the path is an absolute URL the href is the path
\* unchanged; otherwise the href is '/api/files/download?path=' followed by
\* '/' and the path relative to the home directory of the user, so it
\* contains the relative path given; the default path is '#'.
C16_HrefContainsPath ==
    dbtn # NoBtn =>
        /\ ~dbtn.arg.given => dbtn.path = <<"#">>
        /\ is_absolute(dbtn.path) => dbtn.built /\ dbtn.href = dbtn.path
        /\ ~is_absolute(dbtn.path) =>
              /\ dbtn.built
              /\ StartsWith(dbtn.href, <<API, SLASH>>)
              /\ NamesFromHome(Rel(dbtn.href), dbtn.path)
              /\ Relative(dbtn.path) => IsIn(dbtn.path, dbtn.href)

\* C16 (amended): when the path is an absolute URL the href is the path
\* unchanged; an empty path raises ValueError and no button is built; for
\* any other path the href is '/api/files/download?path=' followed by '/'
\* and the normalised path, from the home directory of the user, to the
\* file the given path names from the working directory; when the program
\* runs in the home directory or below it, it contains the given path if
\* that is a relative path in normal form; the default path is '#'.
C16_HrefOfPath ==
    dbtn # NoBtn =>
        /\ ~dbtn.arg.given => dbtn.path = <<"#">>
        /\ is_absolute(dbtn.path) => dbtn.built /\ dbtn.href = dbtn.path
        /\ ~is_absolute(dbtn.path) /\ dbtn.path = <<>> => dbtn.raised /\ ~dbtn.built
        /\ ~is_absolute(dbtn.path) /\ dbtn.path # <<>> =>
              /\ dbtn.built
              /\ StartsWith(dbtn.href, <<API, SLASH>>)
              /\ NamesFromHome(Rel(dbtn.href), dbtn.path)
              /\ RunsInHome /\ PlainRelative(dbtn.path) => IsIn(dbtn.path, dbtn.href)

\* a button for a file two levels below the directory the program runs in,
\* itself below the home directory
C16_Witness ==
    /\ dbtn.built
    /\ dbtn.arg.given
    /\ cwd = Home \o <<SLASH, "h">>
    /\ dbtn.path = <<"h", SLASH, "h">>
    /\ dbtn.href = <<API, SLASH, "h", SLASH, "h", SLASH, "h">>

(***************************************************************************)
(* Claims about Alert.bind.                                                *)
(***************************************************************************)
\* C17: on every 'change' event the attribute of the bound object is set
\* to the v_model of the widget and the alert is visible, showing exactly
\* the configured message followed by that value; the message does not
\* accumulate the values of earlier events.
C17_BindShowsValue ==
    blast = "change" =>
        /\ binding.attr = binding.v_model
        /\ binding.alert.viz
        /\ ~IsIn(<<DN>>, binding.alert.class_)
        /\ binding.alert.children = <<bprev.msg \o Str(binding.v_model)>>
        /\ binding.msg = bprev.msg

\* a second event: the alert showed the first value, it now shows the
\* second alone
C17_Witness ==
    /\ blast = "change"
    /\ bprev.alert.viz
    /\ bprev.alert.children = <<DEFAULT_MSG \o <<"a">>>>
    /\ binding.v_model = VInt(<<"7">>)
    /\ binding.attr = VInt(<<"7">>)
    /\ binding.alert.children = <<DEFAULT_MSG \o <<"7">>>>

(***************************************************************************)
(* Claims about SepalColor.                                                *)
(***************************************************************************)
\* the table of colours of the theme in use
ThemeTable == IF scolor._dark_theme THEN DARK_THEME ELSE LIGHT_THEME

\* C18: right after construction and after every change of _dark_theme,
\* theme_name is 'dark' exactly when _dark_theme is True (else 'light'),
\* the dark flag of vuetify equals _dark_theme, the theme saved in the
\* configuration file is theme_name, and, no custom colours having been
\* given, the colours exposed are those of the table of that theme.
C18_ThemeInStep ==
    clast \in {"init", "change"} =>
        /\ scolor.theme_name = "dark" <=> scolor._dark_theme
        /\ scolor.theme_name = "light" <=> ~scolor._dark_theme
        /\ scolor.v_theme_dark = scolor._dark_theme
        /\ scolor.config_theme = scolor.theme_name
        /\ scolor.given = NoColors =>
              /\ \A k \in TYPES : scolor.namespace[k] = ThemeTable[k]
              /\ scolor.namespace[EXTRA] = NoColor
              /\ scolor.kwargs = AsDict(ThemeTable)

\* the theme was changed to light after someone else had set the dark flag
\* of vuetify and written the configuration file
C18_Witness ==
    /\ clast = "change"
    /\ ~scolor._dark_theme
    /\ scolor.given = NoColors
    /\ scolor.namespace["main"] = "#2196f3"
    /\ scolor.config_theme = "light"
    /\ ~scolor.v_theme_dark

====
